---- MODULE Spec2Model ----
(***************************************************************************)
(* A model of mpc_to_line (MPC.cpp, MPC.h): the global horizon             *)
(* configuration and block offsets, MPC::Solve, FG_eval::operator(),       *)
(* polyfit / polyeval and the receding-horizon loop of main.               *)
(*                                                                         *)
(* Numbers.  A double d is modelled by the integer d * Unit (fixed point). *)
(* The literals the source gives as variable bounds (1.0e19, 0.436332,     *)
(* 1.0) are kept exactly, as decimal literals m * 10^e, and compared with  *)
(* fixed-point values by cross-multiplication.  size_t arithmetic is       *)
(* modular; the model keeps the modulus SizeMod in place of 2^64.          *)
(*                                                                         *)
(* Not modelled: the numerical values of the defect residuals (they use    *)
(* cos, sin, atan; the model keeps which fg entry holds which residual and *)
(* which entries of vars it reads), the least-squares values computed by   *)
(* polyfit, transform_map_coord, plotting and the plotted series.          *)
(***************************************************************************)
EXTENDS Integers, Sequences, FiniteSets, TLC

\* ------------------------------------------------------------ bounds
\* Largest horizon the model initialises N with (the source sets N = 25).
MaxN == 3
\* Cycles of the receding-horizon loop that are explored (the source runs 60).
MaxIters == 2
\* Calls of MPC::Solve a library caller makes.
MaxCalls == 2
\* Largest magnitude, in fixed-point units, of a value the solver produces.
MaxVal == 2
\* Largest magnitude of a fitted coefficient.
MaxCoef == 1
\* Largest number of points handed to polyfit.
MaxPts == 3
\* Fixed-point resolution: the integer v stands for the double v / Unit.
Unit == 4

\* size_t is unsigned and wraps; SizeMod stands for 2^64.
SizeMod == 2 ^ 10

\* ------------------------------------------------------------ state
VARIABLES
    N, dt,
    x_start, y_start, psi_start, v_start, cte_start, epsi_start,
    delta_start, a_start,
    ndebug,
    pc, i, calls,
    coeffs, state, mpc_x, mpc_y, result,
    vars, vars_lowerbound, vars_upperbound,
    constraints_lowerbound, constraints_upperbound,
    solution, point, fg, oob,
    fit_in, fit_out

globals == <<N, dt, x_start, y_start, psi_start, v_start, cte_start,
             epsi_start, delta_start, a_start>>
solve_locals == <<vars, vars_lowerbound, vars_upperbound,
                  constraints_lowerbound, constraints_upperbound>>
fit_vars == <<ndebug, fit_in, fit_out>>
all_vars == <<globals, solve_locals, fit_vars, pc, i, calls, coeffs, state,
              mpc_x, mpc_y, result, solution, point, fg, oob>>

\* ------------------------------------------------------------ numbers
Fx(n) == n * Unit

Sq(v) == v * v

RECURSIVE Pow(_, _)
Pow(b, e) == IF e = 0 THEN 1 ELSE b * Pow(b, e - 1)

\* A decimal literal m * 10^e, as written in the source.
Lit(m, e) == [m |-> m, e |-> e, set |-> TRUE]

\* The content of a bound that was never assigned.
Uninit == [m |-> 0, e |-> 0, set |-> FALSE]

\* v / Unit <= b and v / Unit >= b, for a fixed-point v and a literal b.
\* A literal of magnitude 10^9 or more exceeds every value of the model.
LeLit(v, b) ==
    IF ~b.set THEN TRUE
    ELSE IF b.e >= 9 /\ b.m # 0 THEN b.m > 0
    ELSE IF b.e >= 0 THEN v <= b.m * Pow(10, b.e) * Unit
    ELSE v * Pow(10, 0 - b.e) <= b.m * Unit

GeLit(v, b) ==
    IF ~b.set THEN TRUE
    ELSE IF b.e >= 9 /\ b.m # 0 THEN b.m < 0
    ELSE IF b.e >= 0 THEN v >= b.m * Pow(10, b.e) * Unit
    ELSE v * Pow(10, 0 - b.e) >= b.m * Unit

Within(v, lo, hi) == GeLit(v, lo) /\ LeLit(v, hi)

SizeT(n) == n % SizeMod

\* An allocation of n doubles fails when its byte size leaves the address space.
AllocFails(n) == n * 8 >= SizeMod

\* ------------------------------------------------------------ globals
ref_cte == 0
ref_epsi == 0
ref_v == Fx(40)

\* The literals of the variable bounds.
StateLo == Lit(-1, 19)
StateHi == Lit(1, 19)
DeltaLo == Lit(-436332, -6)
DeltaHi == Lit(436332, -6)
AccLo == Lit(-1, 0)
AccHi == Lit(1, 0)

\* dt = 0.05
DtInit == Lit(5, -2)

\* Static initialisation of N, dt and the block offsets, in definition order.
StaticInit(n) ==
    /\ N = n
    /\ dt = DtInit
    /\ x_start = 0
    /\ y_start = SizeT(x_start + N)
    /\ psi_start = SizeT(y_start + N)
    /\ v_start = SizeT(psi_start + N)
    /\ cte_start = SizeT(v_start + N)
    /\ epsi_start = SizeT(cte_start + N)
    /\ delta_start = SizeT(epsi_start + N)
    /\ a_start = SizeT(SizeT(delta_start + N) - 1)

StateStarts ==
    <<x_start, y_start, psi_start, v_start, cte_start, epsi_start>>

Comps == <<"x", "y", "psi", "v", "cte", "epsi">>

\* ------------------------------------------------------------ vectors
\* A C++ index k is position k + 1 of the sequence.
Zeroed(n) == [k \in 1..n |-> 0]

UninitVec(n) == [k \in 1..n |-> Uninit]

InRange(vec, k) == k >= 0 /\ k < Len(vec)

\* vec[k] = val; a store outside the vector does not change the vector.
Store(vec, k, val) ==
    IF InRange(vec, k) THEN [vec EXCEPT ![k + 1] = val] ELSE vec

RECURSIVE StoreSeq(_, _, _)
StoreSeq(vec, ks, vs) ==
    IF ks = <<>> THEN vec
    ELSE StoreSeq(Store(vec, Head(ks), Head(vs)), Tail(ks), Tail(vs))

\* for (int i = lo; i < hi; i++) vec[i] = val;
Fill(vec, lo, hi, val) ==
    [k \in 1..Len(vec) |-> IF lo <= k - 1 /\ k - 1 < hi THEN val ELSE vec[k]]

FillOutside(size, lo, hi) == lo < hi /\ hi > size

\* vec[k]; a load outside the vector yields the garbage value g.
Load(vec, k, g) == IF InRange(vec, k) THEN vec[k + 1] ELSE g

\* ------------------------------------------------------------ MPC::Solve, set-up
\* size_t n_vars = N * 6 + (N - 1) * 2;
n_vars == SizeT(SizeT(N * 6) + SizeT(SizeT(N - 1) * 2))

\* size_t n_constraints = N * 6;
n_constraints == SizeT(N * 6)

\* Dvector vars(n_vars), zeroed, then the six initial values stored.
InitialVars(x0) == StoreSeq(Zeroed(n_vars), StateStarts, x0)

\* The three loops that fill vars_lowerbound.
VarsLowerbound ==
    Fill(Fill(Fill(UninitVec(n_vars), 0, delta_start, StateLo),
              delta_start, a_start, DeltaLo),
         a_start, n_vars, AccLo)

\* A variant whose first loop runs up to a_start, so that the steering
\* entries get the bounds of the state entries.
VarsUpperbound_NoSteering ==
    Fill(Fill(UninitVec(n_vars), 0, a_start, StateHi), a_start, n_vars, AccHi)

\* The three loops that fill vars_upperbound.
VarsUpperbound ==
    Fill(Fill(Fill(UninitVec(n_vars), 0, delta_start, StateHi),
              delta_start, a_start, DeltaHi),
         a_start, n_vars, AccHi)

\* A variant that pins the first six entries instead.
ConstraintsLowerbound_FirstSix(x0) ==
    StoreSeq(Zeroed(n_constraints), <<0, 1, 2, 3, 4, 5>>, x0)

\* constraints_lowerbound: all 0, then the six entries at the block offsets.
ConstraintsLowerbound(x0) == StoreSeq(Zeroed(n_constraints), StateStarts, x0)

\* constraints_upperbound: all 0, then the six entries at the block offsets.
ConstraintsUpperbound(x0) == StoreSeq(Zeroed(n_constraints), StateStarts, x0)

\* Whether the set-up stores outside one of the vectors it builds.
SetupOutside ==
    \/ \E c \in 1..6 : StateStarts[c] >= n_vars
    \/ \E c \in 1..6 : StateStarts[c] >= n_constraints
    \/ FillOutside(n_vars, 0, delta_start)
    \/ FillOutside(n_vars, delta_start, a_start)

\* ------------------------------------------------------------ FG_eval
\* for (int i = 0; i < N; i++): the reference-state part of the cost.
RECURSIVE RefCost(_, _, _)
RefCost(p, k, acc) ==
    IF ~(k < N) THEN acc
    ELSE RefCost(p, k + 1,
                 acc + Sq(Load(p, cte_start + k, 0) - ref_cte)
                     + Sq(Load(p, epsi_start + k, 0) - ref_epsi)
                     + Sq(Load(p, v_start + k, 0) - ref_v))

\* for (int i = 0; i < N - 1; i++): the use of the actuators.
RECURSIVE ActCost(_, _, _)
ActCost(p, k, acc) ==
    IF ~(k < SizeT(N - 1)) THEN acc
    ELSE ActCost(p, k + 1,
                 acc + Sq(Load(p, delta_start + k, 0))
                     + Sq(Load(p, a_start + k, 0)))

\* A variant whose loop runs one pass too many (i < N - 1).
RECURSIVE GapCost_OffByOne(_, _, _)
GapCost_OffByOne(p, k, acc) ==
    IF ~(k < SizeT(N - 1)) THEN acc
    ELSE GapCost_OffByOne(p, k + 1,
                 acc + Sq(Load(p, delta_start + k + 1, 0) - Load(p, delta_start + k, 0))
                     + Sq(Load(p, a_start + k + 1, 0) - Load(p, a_start + k, 0)))

\* for (int i = 0; i < N - 2; i++): the gap between sequential actuations.
RECURSIVE GapCost(_, _, _)
GapCost(p, k, acc) ==
    IF ~(k < SizeT(N - 2)) THEN acc
    ELSE GapCost(p, k + 1,
                 acc + Sq(Load(p, delta_start + k + 1, 0) - Load(p, delta_start + k, 0))
                     + Sq(Load(p, a_start + k + 1, 0) - Load(p, a_start + k, 0)))

\* fg[0] after the three loops.
Cost(p) == GapCost(p, 0, ActCost(p, 0, RefCost(p, 0, 0)))

\* The indices of vars the cost loops read.
CostReads ==
    UNION { {cte_start + k, epsi_start + k, v_start + k} : k \in 0..(N - 1) }
    \cup UNION { {delta_start + k, a_start + k} : k \in 0..(SizeT(N - 1) - 1) }
    \cup UNION { {delta_start + k + 1, delta_start + k, a_start + k + 1, a_start + k} :
                 k \in 0..(SizeT(N - 2) - 1) }

\* The indices of vars one pass of the constraint loop reads (x1 .. a0).
StepReads(k) ==
    { StateStarts[c] + k + 1 : c \in 1..6 }
    \cup { StateStarts[c] + k : c \in 1..6 }
    \cup {delta_start + k, a_start + k}

\* The indices of vars the residual of component c at step k is computed from.
ResidualUses(c, k) ==
    LET x0 == x_start + k
        y0 == y_start + k
        psi0 == psi_start + k
        v0 == v_start + k
        epsi0 == epsi_start + k
        delta0 == delta_start + k
        a0 == a_start + k
        next == StateStarts[c] + k + 1
    IN CASE c = 1 -> {next, x0, v0, psi0}
         [] c = 2 -> {next, y0, v0, psi0}
         [] c = 3 -> {next, psi0, v0, delta0}
         [] c = 4 -> {next, v0, a0}
         [] c = 5 -> {next, x0, y0, v0, epsi0}
         [] c = 6 -> {next, psi0, x0, v0, delta0}

\* fg[1 + start] = vars[start], for the six blocks in order.
InitWrites ==
    [c \in 1..6 |-> [idx |-> 1 + StateStarts[c], kind |-> "init", comp |-> Comps[c],
                     step |-> 0, uses |-> {StateStarts[c]}]]

\* A variant that forgets the extra 1 for the cost at fg[0].
StepWrites_NoBump(k) ==
    [c \in 1..6 |-> [idx |-> 1 + StateStarts[c] + k, kind |-> "defect",
                     comp |-> Comps[c], step |-> k, uses |-> ResidualUses(c, k)]]

\* fg[2 + start + k] = the residual of the transition k -> k + 1.
StepWrites(k) ==
    [c \in 1..6 |-> [idx |-> 2 + StateStarts[c] + k, kind |-> "defect",
                     comp |-> Comps[c], step |-> k, uses |-> ResidualUses(c, k)]]

\* for (int i = 0; i < N - 1; i++): the rest of the constraints.
RECURSIVE DefectWrites(_)
DefectWrites(k) ==
    IF ~(k < SizeT(N - 1)) THEN <<>>
    ELSE StepWrites(k) \o DefectWrites(k + 1)

CostWrite == <<[idx |-> 0, kind |-> "cost", comp |-> "cost", step |-> 0, uses |-> CostReads]>>

\* The indices of vars one evaluation reads.
FGReads ==
    CostReads \cup { StateStarts[c] : c \in 1..6 }
    \cup UNION { StepReads(k) : k \in 0..(SizeT(N - 1) - 1) }

\* The indices of fg one evaluation writes (fg holds 1 + n_constraints entries).
FGWriteIdx ==
    {0} \cup { 1 + StateStarts[c] : c \in 1..6 }
    \cup { 2 + StateStarts[c] + k : c \in 1..6, k \in 0..(SizeT(N - 1) - 1) }

\* Whether an evaluation on a vector of length n touches an index out of range.
FGOutside(n) ==
    \/ \E r \in FGReads : r >= n
    \/ \E w \in FGWriteIdx : w > n_constraints

\* FG_eval::operator()(fg, vars): the cost and, in program order, the entries
\* of fg it assigns.  Out of range, the cost is the garbage value g.
FG_eval(p, g) ==
    IF FGOutside(Len(p))
    THEN [cost |-> g, writes |-> <<>>, reads |-> FGReads, outside |-> TRUE]
    ELSE [cost |-> Cost(p), writes |-> CostWrite \o InitWrites \o DefectWrites(0),
          reads |-> FGReads, outside |-> FALSE]

NoFG == [cost |-> 0, writes |-> <<>>, reads |-> {}, outside |-> FALSE]

\* ------------------------------------------------------------ the solver
\* The statuses of CppAD::ipopt::solve_result the model distinguishes:
\* success, non-convergence, and "unknown" (the CPU-time budget was exceeded).
SolverStatuses == {"success", "maxiter_exceeded", "unknown"}

SolVals == (-MaxVal..MaxVal) \ {0}

\* What an out-of-range load may yield.
GarbageVals == {0, MaxVal}

\* The points the solver visits or returns: the starting point, or the
\* starting point with one entry moved.
SolverPoints(v) ==
    {v} \cup { [v EXCEPT ![k] = val] : k \in 1..Len(v), val \in SolVals }

\* The solver keeps every variable within the bounds it was given.
Feasible(p, lo, hi) == \A k \in 1..Len(p) : Within(p[k], lo[k], hi[k])

NoSolution == [status |-> "not_defined", x |-> <<>>, obj_value |-> 0]

\* ------------------------------------------------------------ MPC::Solve, result
\* The indices of solution.x that Solve reads after the solver returns.
ReturnReads ==
    { x_start + k : k \in 0..(N - 1) } \cup { y_start + k : k \in 0..(N - 1) }
    \cup { StateStarts[c] + 1 : c \in 1..6 } \cup {delta_start, a_start}

\* for (int i = 0; i < N; i++) mpc_x.push_back(solution.x[x_start + i]);
RECURSIVE PushBlock(_, _, _, _, _)
PushBlock(out, x, start, k, g) ==
    IF ~(k < N) THEN out
    ELSE PushBlock(Append(out, Load(x, start + k, g)), x, start, k + 1, g)

\* The vector Solve returns.
ReturnValue(x, cost, g) ==
    <<Load(x, x_start + 1, g), Load(x, y_start + 1, g),
      Load(x, psi_start + 1, g), Load(x, v_start + 1, g),
      Load(x, cte_start + 1, g), Load(x, epsi_start + 1, g),
      Load(x, delta_start, g), Load(x, a_start, g),
      cost>>

\* ------------------------------------------------------------ polynomials
\* polyeval: result += coeffs[i] * pow(x, i), in fixed point.
RECURSIVE polyeval_from(_, _, _)
polyeval_from(c, x, k) ==
    IF ~(k < Len(c)) THEN 0
    ELSE ((c[k + 1] * Pow(x, k)) \div Pow(Unit, k)) + polyeval_from(c, x, k + 1)

polyeval(c, x) == polyeval_from(c, x, 0)

\* The fixed-point values atan(t) may round to: of the sign of t, no larger
\* than |t| and below pi / 2.
AtanVals(t) ==
    { a \in (0 - Fx(2))..Fx(2) :
        /\ a * t >= 0
        /\ (t = 0 => a = 0)
        /\ Sq(a) <= Sq(t)
        /\ Sq(a * 100) <= Sq(157 * Unit) }

\* The coefficient vectors polyfit(ptsx, ptsy, 3) may return in main.
FitResults == { <<c, 0 - c, 0, 0>> : c \in 0..MaxCoef }

Aborted == [kind |-> "aborted", size |-> 0]
Crashed == [kind |-> "crashed", size |-> 0]
Coefficients(n) == [kind |-> "coeffs", size |-> n]
NoFit == [kind |-> "none", size |-> 0]

\* polyfit on nx abscissae and ny ordinates: the outcomes the build can
\* produce.  nd: the build defines NDEBUG, so the two asserts are compiled out.
polyfit(nx, ny, order, nd) ==
    IF ~nd /\ ~(nx = ny) THEN {Aborted}
    ELSE IF ~nd /\ ~(order >= 1 /\ order <= nx - 1) THEN {Aborted}
    ELSE IF order + 1 < 0 THEN {Crashed}
    ELSE IF order + 1 = 0 /\ nx > 0 THEN {Crashed, Coefficients(0)}
    ELSE IF nx # ny THEN {Crashed, Coefficients(order + 1)}
    ELSE {Coefficients(order + 1)}

\* ------------------------------------------------------------ main
\* int iters = 60;
iters == 60

\* Nothing of a Solve call is live.
NoCall ==
    /\ vars = <<>>
    /\ vars_lowerbound = <<>>
    /\ vars_upperbound = <<>>
    /\ constraints_lowerbound = <<>>
    /\ constraints_upperbound = <<>>
    /\ solution = NoSolution
    /\ point = <<>>
    /\ fg = NoFG
    /\ result = <<>>
    /\ mpc_x = <<>>
    /\ mpc_y = <<>>
    /\ oob = FALSE
    /\ calls = 0

\* main up to the loop: the fit of the six waypoints with order 3, then
\* state << x, y, psi, v, cte, epsi with x = y = psi = 0 and v = 10.
MainStart ==
    /\ ndebug = FALSE
    /\ fit_in = [nx |-> 6, ny |-> 6, order |-> 3]
    /\ fit_out \in polyfit(6, 6, 3, ndebug)
    /\ coeffs \in FitResults
    /\ \E a \in AtanVals(coeffs[2] + 2 * coeffs[3] * 0 + 3 * coeffs[4] * (0 * 0)) :
          state = <<0, 0, 0, Fx(10), polyeval(coeffs, 0) - 0, 0 - a>>
    /\ i = 0
    /\ pc = "loop"
    /\ NoCall

Init == \E n \in 2..MaxN : StaticInit(n) /\ MainStart

\* for (size_t i = 0; i < iters; i++) { vector<double> mpc_x; vector<double> mpc_y;
MainLoopTop ==
    /\ pc = "loop"
    /\ i < iters
    /\ i < MaxIters
    /\ mpc_x' = <<>>
    /\ mpc_y' = <<>>
    /\ pc' = "call"
    /\ UNCHANGED <<globals, solve_locals, fit_vars, i, calls, coeffs, state,
                   result, solution, point, fg, oob>>

\* MPC::Solve up to the call of the solver.
SolveEnter ==
    /\ pc = "call"
    /\ calls' = calls + 1
    /\ solution' = NoSolution
    /\ point' = <<>>
    /\ fg' = NoFG
    /\ IF AllocFails(n_vars) \/ AllocFails(n_constraints)
       THEN /\ pc' = "crashed"
            /\ oob' = FALSE
            /\ UNCHANGED solve_locals
       ELSE /\ vars' = InitialVars(state)
            /\ vars_lowerbound' = VarsLowerbound
            /\ vars_upperbound' = VarsUpperbound
            /\ constraints_lowerbound' = ConstraintsLowerbound(state)
            /\ constraints_upperbound' = ConstraintsUpperbound(state)
            /\ oob' = SetupOutside
            /\ pc' \in (IF SetupOutside THEN {"solving", "crashed"} ELSE {"solving"})
    /\ UNCHANGED <<globals, fit_vars, i, coeffs, state, mpc_x, mpc_y, result>>

\* The solver settles on a point within the bounds it was given and
\* evaluates fg_eval there (its last evaluation; earlier ones leave no trace).
FGEval ==
    /\ pc = "solving"
    /\ \E p \in { q \in SolverPoints(vars) : Feasible(q, vars_lowerbound, vars_upperbound) } :
          \E g \in (IF FGOutside(Len(p)) THEN GarbageVals ELSE {0}) :
             /\ point' = p
             /\ fg' = FG_eval(p, g)
             /\ oob' = (oob \/ FGOutside(Len(p)))
             /\ pc' \in (IF FGOutside(Len(p)) THEN {"solved", "crashed"} ELSE {"solved"})
    /\ UNCHANGED <<globals, solve_locals, fit_vars, i, calls, coeffs, state,
                   mpc_x, mpc_y, result, solution>>

\* The solver returns its point, the objective there and a status; Solve
\* pushes the trajectory, then exits the process or returns.  solution keeps
\* what the solver returned until the caller moves on.
SolveReturn ==
    /\ pc = "solved"
    /\ \E st \in SolverStatuses :
          LET outside == \E r \in ReturnReads : r >= Len(point)
          IN \E g \in (IF outside THEN GarbageVals ELSE {0}) :
                IF st = "success"
                THEN /\ solution' = [status |-> st, x |-> point, obj_value |-> fg.cost]
                     /\ mpc_x' = PushBlock(mpc_x, point, x_start, 0, g)
                     /\ mpc_y' = PushBlock(mpc_y, point, y_start, 0, g)
                     /\ result' = ReturnValue(point, fg.cost, g)
                     /\ oob' = (oob \/ outside)
                     /\ pc' \in (IF outside THEN {"ret", "crashed"} ELSE {"ret"})
                ELSE /\ solution' = [status |-> st, x |-> <<>>, obj_value |-> 0]
                     /\ mpc_x' = <<>>
                     /\ mpc_y' = <<>>
                     /\ result' = <<>>
                     /\ oob' = (oob \/ outside)
                     /\ pc' = "exited"
    /\ vars' = <<>>
    /\ vars_lowerbound' = <<>>
    /\ vars_upperbound' = <<>>
    /\ constraints_lowerbound' = <<>>
    /\ constraints_upperbound' = <<>>
    /\ point' = <<>>
    /\ fg' = NoFG
    /\ UNCHANGED <<globals, fit_vars, i, calls, coeffs, state>>

\* A variant that does not hand the returned state to the next cycle.
MainUpdate_KeepState ==
    /\ pc = "ret"
    /\ i' = i + 1
    /\ result' = <<>>
    /\ mpc_x' = <<>>
    /\ mpc_y' = <<>>
    /\ solution' = NoSolution
    /\ pc' = "loop"
    /\ UNCHANGED <<globals, solve_locals, fit_vars, calls, coeffs, point, fg, oob,
                   state>>

\* state << vars[0], ..., vars[5]; the end of the loop body.
MainUpdate ==
    /\ pc = "ret"
    /\ state' = SubSeq(result, 1, 6)
    /\ i' = i + 1
    /\ result' = <<>>
    /\ mpc_x' = <<>>
    /\ mpc_y' = <<>>
    /\ solution' = NoSolution
    /\ pc' = "loop"
    /\ UNCHANGED <<globals, solve_locals, fit_vars, calls, coeffs, point, fg, oob>>

Next == MainLoopTop \/ SolveEnter \/ FGEval \/ SolveReturn \/ MainUpdate

Spec == Init /\ [][Next]_all_vars

\* ------------------------------------------------------------ Solve as a library
\* MPC::Solve is public and N, dt are writable globals with external linkage:
\* a program that links MPC.cpp may assign them between calls and may pass
\* any state and any vectors.
DtValues == {DtInit, Lit(0, 0)}

CallerStates == { [c \in 1..6 |-> c * s] : s \in {0, 1} }

PriorTrajectories == {<<>>, <<Fx(7)>>}

\* The caller assigns the globals N and dt.
LibConfigure ==
    /\ pc = "loop"
    /\ \E n \in 0..MaxN, d \in DtValues :
          /\ <<n, d>> # <<N, dt>>
          /\ N' = n
          /\ dt' = d
    /\ UNCHANGED <<x_start, y_start, psi_start, v_start, cte_start, epsi_start,
                   delta_start, a_start, solve_locals, fit_vars, pc, i, calls,
                   coeffs, state, mpc_x, mpc_y, result, solution, point, fg, oob>>

\* The caller calls Solve(x0, coeffs, mpc_x, mpc_y).
LibCall ==
    /\ pc = "loop"
    /\ calls < MaxCalls
    /\ \E st \in CallerStates, prior \in PriorTrajectories :
          /\ state' = st
          /\ mpc_x' = prior
          /\ mpc_y' = prior
    /\ pc' = "call"
    /\ UNCHANGED <<globals, solve_locals, fit_vars, i, calls, coeffs, result,
                   solution, point, fg, oob>>

\* The caller takes the result.
LibReturn ==
    /\ pc = "ret"
    /\ result' = <<>>
    /\ mpc_x' = <<>>
    /\ mpc_y' = <<>>
    /\ solution' = NoSolution
    /\ pc' = "loop"
    /\ UNCHANGED <<globals, solve_locals, fit_vars, i, calls, coeffs, state,
                   point, fg, oob>>

\* Any horizon, valid or not, at static initialisation.
InitLib ==
    /\ \E n \in 0..MaxN : StaticInit(n)
    /\ ndebug = FALSE
    /\ fit_in = [nx |-> 6, ny |-> 6, order |-> 3]
    /\ fit_out \in polyfit(6, 6, 3, ndebug)
    /\ coeffs \in FitResults
    /\ state = <<0, 0, 0, 0, 0, 0>>
    /\ i = 0
    /\ pc = "loop"
    /\ NoCall

NextLib == LibConfigure \/ LibCall \/ SolveEnter \/ FGEval \/ SolveReturn \/ LibReturn

SpecLib == InitLib /\ [][NextLib]_all_vars

\* A caller of the program as built (a valid horizon at static initialisation)
\* that may assign N and dt between calls.
SpecReconfig == Init /\ [][NextLib]_all_vars

\* A caller that leaves the configuration alone.
NextCaller == LibCall \/ SolveEnter \/ FGEval \/ SolveReturn \/ LibReturn

SpecCaller == Init /\ [][NextCaller]_all_vars

\* ------------------------------------------------------------ FG_eval on its own
\* The vectors that are zero but for at most two entries.
PairPoints(n) ==
    { [k \in 1..n |-> IF k = a THEN va ELSE IF k = b THEN vb ELSE 0] :
        a \in 1..n, b \in 1..n, va \in -MaxVal..MaxVal, vb \in -MaxVal..MaxVal }

InitFG ==
    /\ \E n \in 2..MaxN : StaticInit(n)
    /\ ndebug = FALSE
    /\ fit_in = [nx |-> 6, ny |-> 6, order |-> 3]
    /\ fit_out \in polyfit(6, 6, 3, ndebug)
    /\ coeffs \in FitResults
    /\ state = <<0, 0, 0, 0, 0, 0>>
    /\ i = 0
    /\ pc = "fg"
    /\ vars = <<>>
    /\ vars_lowerbound = <<>>
    /\ vars_upperbound = <<>>
    /\ constraints_lowerbound = <<>>
    /\ constraints_upperbound = <<>>
    /\ solution = NoSolution
    /\ point \in PairPoints(n_vars)
    /\ fg = NoFG
    /\ result = <<>>
    /\ mpc_x = <<>>
    /\ mpc_y = <<>>
    /\ oob = FALSE
    /\ calls = 0

\* fg_eval(fg, vars) on the vector point.
FGApply ==
    /\ pc = "fg"
    /\ fg' = FG_eval(point, 0)
    /\ oob' = (oob \/ FGOutside(Len(point)))
    /\ pc' = "fg_done"
    /\ UNCHANGED <<globals, solve_locals, fit_vars, i, calls, coeffs, state,
                   mpc_x, mpc_y, result, solution, point>>

NextFG == FGApply

SpecFG == InitFG /\ [][NextFG]_all_vars

\* ------------------------------------------------------------ polyfit on its own
InitFit ==
    /\ StaticInit(MaxN)
    /\ ndebug \in BOOLEAN
    /\ fit_in = [nx |-> 0, ny |-> 0, order |-> 0]
    /\ fit_out = NoFit
    /\ coeffs = <<>>
    /\ state = <<0, 0, 0, 0, 0, 0>>
    /\ i = 0
    /\ pc = "fit"
    /\ NoCall

\* polyfit(xvals, yvals, order) with nx abscissae and ny ordinates.
PolyfitCall ==
    /\ pc = "fit"
    /\ \E nx \in 0..MaxPts, ny \in 0..MaxPts, order \in -1..(MaxPts + 1) :
          /\ fit_in' = [nx |-> nx, ny |-> ny, order |-> order]
          /\ fit_out' \in polyfit(nx, ny, order, ndebug)
    /\ pc' = (IF fit_out'.kind = "coeffs" THEN "fit" ELSE fit_out'.kind)
    /\ UNCHANGED <<globals, solve_locals, ndebug, i, calls, coeffs, state, mpc_x,
                   mpc_y, result, solution, point, fg, oob>>

NextFit == PolyfitCall

SpecFit == InitFit /\ [][NextFit]_all_vars

\* ------------------------------------------------------------ properties
\* The layout the specification gives for a horizon n.
OffsetsOf(n) == <<0, n, 2 * n, 3 * n, 4 * n, 5 * n, 6 * n, 7 * n - 1>>

InSolve == pc \in {"solving", "solved"}

RECURSIVE SumSeq(_)
SumSeq(s) == IF s = <<>> THEN 0 ELSE Head(s) + SumSeq(Tail(s))

\* C1: whenever the solver reports a status other than success, Solve returns
\* to its caller; no execution of Solve terminates the process.
C1_FailureReturnsToCaller ==
    /\ pc # "exited"
    /\ (solution.status \in SolverStatuses \ {"success"}) => pc = "ret"

\* C2: in every Solve call, for the horizon N >= 2 in effect at that call
\* (also when N was assigned between calls), the decision vector has length
\* 6N + 2(N-1), the constraint vector has length 6N and the block offsets are
\* 0, N, 2N, 3N, 4N, 5N, 6N, 7N-1.
C2_LayoutFollowsN ==
    (InSolve /\ N >= 2) =>
        /\ Len(vars) = 6 * N + 2 * (N - 1)
        /\ Len(constraints_lowerbound) = 6 * N
        /\ Len(constraints_upperbound) = 6 * N
        /\ <<x_start, y_start, psi_start, v_start, cte_start, epsi_start,
             delta_start, a_start>> = OffsetsOf(N)

\* C3 as stated: the first six constraint entries (indices 0..5) are pinned to
\* x, y, psi, v, cte, epsi of the input state, the other 6(N-1) are bounded to 0.
C3_FirstSixPinned ==
    InSolve =>
        /\ Len(constraints_lowerbound) = 6 * N
        /\ Len(constraints_upperbound) = 6 * N
        /\ \A k \in 0..(6 * N - 1) :
              LET want == IF k < 6 THEN state[k + 1] ELSE 0
              IN /\ constraints_lowerbound[k + 1] = want
                 /\ constraints_upperbound[k + 1] = want

\* C3 amended: the six constraint entries at the block offsets 0, N, 2N, 3N,
\* 4N, 5N are pinned to x, y, psi, v, cte, epsi of the input state; each of the
\* other 6(N-1) entries has lower bound = upper bound = 0.
C3_PinnedAtBlockOffsets ==
    InSolve =>
        /\ Len(constraints_lowerbound) = 6 * N
        /\ Len(constraints_upperbound) = 6 * N
        /\ \A k \in 0..(6 * N - 1) :
              LET want == IF k % N = 0 THEN state[(k \div N) + 1] ELSE 0
              IN /\ constraints_lowerbound[k + 1] = want
                 /\ constraints_upperbound[k + 1] = want

\* A Solve call of the largest horizon whose input state has v # 0 and y # 0 or
\* cte # 0: entry 3N and entry N or 4N are pinned to non-zero values.
C3_Witness ==
    /\ pc = "solving"
    /\ N = MaxN
    /\ state[4] # 0
    /\ (state[2] # 0 \/ state[5] # 0)
    /\ constraints_lowerbound[3 * N + 1] = state[4]

\* C4: every decision-vector index has the bound pair of its block (state:
\* -1e19 / 1e19, steering: -0.436332 / 0.436332, acceleration: -1 / 1), and the
\* steering and the acceleration Solve returns lie within their bounds.
C4_BoundsByBlock ==
    /\ InSolve =>
          /\ Len(vars_lowerbound) = 6 * N + 2 * (N - 1)
          /\ Len(vars_upperbound) = 6 * N + 2 * (N - 1)
          /\ \A k \in 0..(6 * N + 2 * (N - 1) - 1) :
                /\ vars_lowerbound[k + 1] =
                      (IF k < 6 * N THEN Lit(-1, 19)
                       ELSE IF k < 7 * N - 1 THEN Lit(-436332, -6)
                       ELSE Lit(-1, 0))
                /\ vars_upperbound[k + 1] =
                      (IF k < 6 * N THEN Lit(1, 19)
                       ELSE IF k < 7 * N - 1 THEN Lit(436332, -6)
                       ELSE Lit(1, 0))
    /\ pc = "ret" =>
          /\ result[7] * 1000000 >= (0 - 436332) * Unit
          /\ result[7] * 1000000 <= 436332 * Unit
          /\ result[8] >= 0 - Unit
          /\ result[8] <= Unit

\* Solve has returned a steering value other than 0.
C4_Witness == pc = "ret" /\ result[7] # 0 /\ Len(result) = 9

\* C5: after a successful Solve, the returned vector is (x[1], y[1], psi[1],
\* v[1], cte[1], epsi[1], delta[0], a[0], cost) of the solution, and mpc_x,
\* mpc_y hold exactly the N entries of the solution's x block and y block,
\* whatever they held before the call.
C5_ReturnAndTrajectory ==
    pc = "ret" =>
        LET x == solution.x
        IN /\ result = <<x[2], x[N + 2], x[2 * N + 2], x[3 * N + 2], x[4 * N + 2],
                         x[5 * N + 2], x[6 * N + 1], x[7 * N], solution.obj_value>>
           /\ mpc_x = [k \in 1..N |-> x[k]]
           /\ mpc_y = [k \in 1..N |-> x[N + k]]

\* C6: with an invalid horizon configuration (N < 2 or dt <= 0) Solve returns
\* an error before it invokes the solver (no actuation comes back), and no
\* out-of-range index is touched.
C6_InvalidConfigRejected ==
    (N < 2 \/ dt.m <= 0) =>
        /\ pc \in {"loop", "call", "ret"}
        /\ ~oob
        /\ (pc = "ret" => result = <<>>)

\* C7: polyfit with order < 1, order > len(points) - 1 or with xvals and yvals
\* of different lengths returns an InvalidInput error value: it neither returns
\* coefficients nor terminates the process, in every build.
C7_InvalidFitInput ==
    (/\ fit_out # NoFit
     /\ \/ fit_in.order < 1
        \/ fit_in.order > fit_in.nx - 1
        \/ fit_in.nx # fit_in.ny)
    => fit_out.kind = "InvalidInput"

\* C8, in every state: Solve has been entered once per cycle begun, and a Solve
\* starts from a decision vector that is zero but for the six step-0 entries,
\* which hold its input state.
C8_Inv ==
    /\ calls = i + (IF pc \in {"solving", "solved", "ret", "exited"} THEN 1 ELSE 0)
    /\ InSolve =>
          /\ Len(vars) = 6 * N + 2 * (N - 1)
          /\ \A k \in 0..(Len(vars) - 1) :
                vars[k + 1] = (IF k < 6 * N /\ k % N = 0
                               THEN state[(k \div N) + 1] ELSE 0)

\* C8, in every step: the state changes only at the end of a cycle, to the six
\* next-state values Solve returned; N, dt, the offsets and the coefficients
\* do not change.
C8_Step ==
    /\ pc = "ret" => state' = SubSeq(result, 1, 6)
    /\ pc # "ret" => state' = state
    /\ UNCHANGED <<globals, coeffs>>

\* C8: in the receding-horizon loop Solve is called once per cycle, the state
\* passed in cycle k+1 is the next state returned in cycle k, every Solve
\* starts cold, and Solve leaves N, dt, the offsets and the coefficients alone.
C8_RecedingHorizon == []C8_Inv /\ [][C8_Step]_all_vars

\* A Solve call of a later cycle, entered with a state that came out of the
\* previous cycle and differs from the initial one.
C8_Witness ==
    /\ pc = "solving"
    /\ i >= 1
    /\ calls = i + 1
    /\ state[1] # 0
    /\ vars[x_start + 1] = state[1]

\* The cost of C9, summed as the claim states it.
ClaimedCost(p) ==
    SumSeq([k \in 1..N |-> Sq(p[4 * N + k] - ref_cte) + Sq(p[5 * N + k] - ref_epsi)
                           + Sq(p[3 * N + k] - ref_v)])
    + SumSeq([k \in 1..(N - 1) |-> Sq(p[6 * N + k]) + Sq(p[7 * N - 1 + k])])
    + SumSeq([k \in 1..(N - 2) |-> Sq(p[6 * N + k + 1] - p[6 * N + k])
                                 + Sq(p[7 * N - 1 + k + 1] - p[7 * N - 1 + k])])

\* C9: the cost FG_eval stores in fg[0] is the unweighted sum of the squared
\* reference errors over the N steps, the squared actuations over the N-1
\* actuation steps and the squared actuation gaps over the N-2 consecutive
\* pairs; it is never negative.
C9_CostIsSumOfSquares ==
    pc = "fg_done" =>
        /\ fg.cost = ClaimedCost(point)
        /\ fg.cost >= 0

\* An evaluation on a vector whose two steering entries differ and are not 0.
C9_Witness ==
    /\ pc = "fg_done"
    /\ N = 3
    /\ point[delta_start + 1] # 0
    /\ point[delta_start + 2] # 0
    /\ point[delta_start + 1] # point[delta_start + 2]

\* The entries of fg assigned at index k.
WritesAt(k) == { j \in 1..Len(fg.writes) : fg.writes[j].idx = k }

\* C10: FG_eval assigns each of fg[0..6N] once (the cost at 0, the step-0
\* state variables at 1 + block offset, the residual of transition s -> s+1 at
\* 2 + block offset + s, computed from the actuation of step s only);
\* constraint k is pinned to a component of the input state when fg[1+k] holds
\* that component of step 0 and bounded to 0 when fg[1+k] holds a residual;
\* every index read from vars is within 0..6N+2(N-1)-1.
C10_LayoutsAgree ==
    pc = "solved" =>
        /\ ~fg.outside
        /\ Len(fg.writes) = 6 * N + 1
        /\ \A k \in 0..(6 * N) : Cardinality(WritesAt(k)) = 1
        /\ fg.writes[CHOOSE j \in WritesAt(0) : TRUE].kind = "cost"
        /\ \A c \in 0..5 :
              LET w == fg.writes[CHOOSE j \in WritesAt(1 + c * N) : TRUE]
              IN /\ w.kind = "init"
                 /\ w.comp = Comps[c + 1]
                 /\ w.uses = {c * N}
                 /\ constraints_lowerbound[c * N + 1] = state[c + 1]
                 /\ constraints_upperbound[c * N + 1] = state[c + 1]
        /\ \A c \in 0..5 : \A s \in 0..(N - 2) :
              LET w == fg.writes[CHOOSE j \in WritesAt(2 + c * N + s) : TRUE]
              IN /\ w.kind = "defect"
                 /\ w.comp = Comps[c + 1]
                 /\ w.step = s
                 /\ c * N + s + 1 \in w.uses
                 /\ (w.uses \cap ((6 * N)..(8 * N - 3))) \subseteq {6 * N + s, 7 * N - 1 + s}
                 /\ constraints_lowerbound[1 + c * N + s + 1] = 0
                 /\ constraints_upperbound[1 + c * N + s + 1] = 0
        /\ fg.reads \subseteq 0..(6 * N + 2 * (N - 1) - 1)

\* An evaluation during a Solve of the largest horizon whose input state has a
\* heading error.
C10_Witness ==
    /\ pc = "solved"
    /\ N = MaxN
    /\ state[6] # 0
    /\ Len(fg.writes) > 0

====
